---- MODULE Spec2Model ----
(***************************************************************************)
(* Model of logger/log_visualizer.py: TimelineVisualizer, the layout       *)
(* engine that turns a tree of timed sections and point-events into an     *)
(* ordered list of drawing commands.                                       *)
(*                                                                         *)
(* Numbers.  The program computes in binary floating point; the model      *)
(* computes the same expressions over exact rationals <<num, den>> kept in *)
(* lowest terms with den > 0, so that equality of values is equality of    *)
(* tuples.  Times are whole seconds.  A command is a record holding the    *)
(* values the program hands to its f-string (the fixed-point rendering of  *)
(* the numbers into text is not part of the model), plus two bookkeeping   *)
(* fields: part (the append statement that emitted it) and node (the tree  *)
(* node it draws).                                                         *)
(***************************************************************************)
EXTENDS Integers, Sequences, FiniteSets, TLC

\* ------------------------------------------------------------------ bounds
\* nodes below the root in the trees laid out, the last second of the root's
\* span, children of the section handed to the grouper, nodes below the root
\* and keys of the configuration file in the program runs, passes per run
MaxNodes == 3
MaxTime == 2
MaxChildren == 4
MaxRunNodes == 2
MaxConfigKeys == 1
MaxPasses == 2

\* ------------------------------------------------------- exact arithmetic
Abs(a) == IF a < 0 THEN 0 - a ELSE a

RECURSIVE GCD(_, _)
GCD(a, b) == IF b = 0 THEN a ELSE GCD(b, a % b)

Rat(n, d) ==
    LET s == IF d < 0 THEN 0 - 1 ELSE 1
        g == GCD(Abs(n), Abs(d))
    IN  <<(s * n) \div g, (s * d) \div g>>

RInt(n) == <<n, 1>>
RAdd(p, q) == Rat(p[1] * q[2] + q[1] * p[2], p[2] * q[2])
RSub(p, q) == Rat(p[1] * q[2] - q[1] * p[2], p[2] * q[2])
RMul(p, q) == Rat(p[1] * q[1], p[2] * q[2])
RDiv(p, q) == Rat(p[1] * q[2], p[2] * q[1])
RLt(p, q) == p[1] * q[2] < q[1] * p[2]
RLe(p, q) == p[1] * q[2] <= q[1] * p[2]
RMax(p, q) == IF RLt(p, q) THEN q ELSE p
RMin(p, q) == IF RLt(q, p) THEN q ELSE p
RFloor(p) == p[1] \div p[2]
\* Python's float % for a positive modulus: x - m * floor(x / m)
RMod(x, m) == RSub(x, RMul(m, RInt(RFloor(RDiv(x, m)))))
\* round-half-even to an integer, as the f-string's fixed-point rendering does
RRound(p) ==
    LET fl == RFloor(p)
        fr == RSub(p, RInt(fl))
    IN  IF RLt(fr, <<1, 2>>) THEN fl
        ELSE IF RLt(<<1, 2>>, fr) THEN fl + 1
        ELSE IF fl % 2 = 0 THEN fl ELSE fl + 1

\* --------------------------------------------------------------- the tree
\* LogSection / LogMessage of logger.parse_logs.  A tree is a function from
\* node ids 0..n (0 is the root section) to records; a node's children are
\* the nodes naming it as parent, in ascending id order (the order of the
\* section's children list).  A LogMessage keeps its timestamp in start_time
\* and its message text in name; end_time = None marks an unterminated
\* section.
None == 0 - 1

IsSection(c) == c.kind = "LogSection"
IsMessage(c) == c.kind = "LogMessage"

Nodes(tree) == DOMAIN tree

RECURSIVE ChildrenFrom(_, _, _)
ChildrenFrom(tree, s, i) ==
    IF i \notin Nodes(tree) THEN <<>>
    ELSE IF tree[i].parent = s THEN <<i>> \o ChildrenFrom(tree, s, i + 1)
    ELSE ChildrenFrom(tree, s, i + 1)

children(tree, s) == ChildrenFrom(tree, s, 1)

\* LogSection.duration_microseconds(): None while the section is open
duration_microseconds(sec) ==
    IF sec.end_time = None THEN None
    ELSE (sec.end_time - sec.start_time) * 1000000

\* ------------------------------------------------------------ construction
\* parse_spdlog_time: "%H:%M:%S.%f" text, modelled as its four fields
\* <<hours, minutes, seconds, microseconds>>, to seconds since midnight
parse_spdlog_time(time_str) ==
    RAdd(RInt(time_str[1] * 3600 + time_str[2] * 60 + time_str[3]),
         Rat(time_str[4], 1000000))

\* the constructor's keyword parameters and their defaults
CtorDefaults ==
    [build_direction |-> "up",
     ndc_units_per_second |-> <<1, 2>>,
     use_custom_root_section_height |-> TRUE,
     custom_root_section_height |-> <<1, 100>>,
     base_timeline_position_y |-> <<0, 1>>,
     draw_timeline |-> TRUE,
     timeline_tick_width |-> <<1, 100>>,
     timeline_tick_height |-> <<1, 10>>,
     custom_start_time |-> <<>>]

CtorParams == DOMAIN CtorDefaults

\* __init__.__code__.co_varnames: the positional names, then the keywords
\* (the constructor has no local variables)
co_varnames == {"self", "root_section"} \cup CtorParams

\* a keyword argument, or the parameter's default
Arg(kwargs, k) == IF k \in DOMAIN kwargs THEN kwargs[k] ELSE CtorDefaults[k]

\* TimelineVisualizer.__init__(root_section, **kwargs); custom_start_time
\* None is the empty tuple
NewVisualizer(root_section, kwargs) ==
    LET cst == Arg(kwargs, "custom_start_time")
        st  == IF cst # <<>> THEN parse_spdlog_time(cst)
               ELSE RInt(root_section.start_time)
    IN  [build_direction_factor |->
             IF Arg(kwargs, "build_direction") = "down" THEN 0 - 1 ELSE 1,
         ndc_units_per_second |-> Arg(kwargs, "ndc_units_per_second"),
         use_custom_root_section_height |->
             Arg(kwargs, "use_custom_root_section_height"),
         custom_root_section_height |-> Arg(kwargs, "custom_root_section_height"),
         base_timeline_position_y |-> Arg(kwargs, "base_timeline_position_y"),
         draw_timeline |-> Arg(kwargs, "draw_timeline"),
         timeline_tick_width |-> Arg(kwargs, "timeline_tick_width"),
         timeline_tick_height |-> Arg(kwargs, "timeline_tick_height"),
         start_time |-> st,
         end_time |-> RInt(root_section.end_time),
         total_duration |->
             RMul(RSub(RInt(root_section.end_time), st), RInt(1000000))]

\* from_config keeps the keys of the file that co_varnames holds
valid_keys(config) ==
    [k \in {j \in DOMAIN config : j \in co_varnames} |-> config[k]]

\* cls(root_section, **valid_keys) raises TypeError when a keyword names a
\* parameter already bound positionally (self, root_section)
CallRaises(kwargs) == DOMAIN kwargs \cap {"self", "root_section"} # {}

\* ------------------------------------------------- geometry and layout helpers
Sign(self) == RInt(self.build_direction_factor)

time_to_x(self, timestamp) ==
    RMul(RSub(RInt(timestamp), self.start_time), self.ndc_units_per_second)

\* colorsys.hsv_to_rgb
hsv_to_rgb(h, s, v) ==
    IF s = <<0, 1>> THEN <<v, v, v>>
    ELSE LET h6 == RMul(h, RInt(6))
             i  == RFloor(h6)
             f  == RSub(h6, RInt(i))
             p  == RMul(v, RSub(RInt(1), s))
             q  == RMul(v, RSub(RInt(1), RMul(s, f)))
             t  == RMul(v, RSub(RInt(1), RMul(s, RSub(RInt(1), f))))
             k  == i % 6
         IN  CASE k = 0 -> <<v, t, p>>
               [] k = 1 -> <<q, v, p>>
               [] k = 2 -> <<p, v, t>>
               [] k = 3 -> <<p, q, v>>
               [] k = 4 -> <<t, p, v>>
               [] OTHER -> <<v, p, q>>

generate_color(depth, index) ==
    LET hue == RMod(RAdd(RMul(RInt(depth), <<3, 10>>),
                         RMul(RInt(index), <<1, 10>>)), RInt(1))
        saturation == <<7, 10>>
        value == RSub(<<9, 10>>, RMod(RMul(RInt(depth), <<1, 10>>), <<6, 10>>))
    IN  hsv_to_rgb(hue, saturation, value)

get_depth_scale(depth) == Rat(1, depth + 1)

get_event_width_depth_based(root_section_width, depth) ==
    RMul(RMul(<<1, 200>>, get_depth_scale(depth + 1)),
         RDiv(root_section_width, RInt(2)))

get_event_width_aspect_ratio_based(section_width) ==
    RMax(RDiv(section_width, RInt(1000)), <<1, 1000000>>)

get_section_rect_height_depth_based(root_section_width, depth) ==
    RMul(RMul(<<3, 20>>, get_depth_scale(depth)),
         RDiv(root_section_width, RInt(2)))

get_section_rect_height_aspect_ratio_based(section_width) ==
    RDiv(section_width, RInt(4))

\* ------------------------------------------------------------------ commands
Zero == <<0, 1>>

\* generate_rectangle(cx, cy, 0.0, width, height) | color
Rectangle(part, node, cx, cy, width, height, color) ==
    [part |-> part, op |-> "generate_rectangle", node |-> node, text |-> <<>>,
     x |-> cx, y |-> cy, z |-> Zero, w |-> width, h |-> height,
     x2 |-> Zero, y2 |-> Zero, color |-> color]

\* get_text_geometry("text", Rectangle((cx, cy, cz), width, height)) | color
TextGeometry(part, node, text, cx, cy, cz, width, height, color) ==
    [part |-> part, op |-> "get_text_geometry", node |-> node, text |-> text,
     x |-> cx, y |-> cy, z |-> cz, w |-> width, h |-> height,
     x2 |-> Zero, y2 |-> Zero, color |-> color]

\* generate_rectangle_between_2d((x1, y1), (x2, y2), thickness) | color
RectangleBetween(part, node, x1, y1, x2, y2, thickness, color) ==
    [part |-> part, op |-> "generate_rectangle_between_2d", node |-> node,
     text |-> <<>>, x |-> x1, y |-> y1, z |-> Zero, w |-> thickness, h |-> Zero,
     x2 |-> x2, y2 |-> y2, color |-> color]

Grey(n) == <<Rat(n, 10), Rat(n, 10), Rat(n, 10)>>

\* ------------------------------------------------------------- timeline axis
\* the walk's accumulator: the command list, the claimed text areas, and
\* whether an exception has propagated (nothing is appended after it)
draw_base_timeline(self, st) ==
    [st EXCEPT !.commands = Append(@,
        Rectangle("base_timeline", None, Zero, self.base_timeline_position_y,
                  RInt(2), <<1, 50>>, Grey(5)))]

RECURSIVE TicksFrom(_, _, _)
TicksFrom(self, st, i) ==
    IF i >= 11 THEN st
    ELSE LET x_pos == RAdd(RInt(0 - 1), RMul(RInt(i), <<1, 5>>))
             time_fraction == Rat(i, 10)
             tick_time_us == RMul(time_fraction, self.total_duration)
             \* timedelta(microseconds=...) keeps whole microseconds
             tick_timestamp == RAdd(self.start_time,
                                    Rat(RRound(tick_time_us), 1000000))
             text_x == RSub(x_pos, <<1, 20>>)
             text_y == RSub(self.base_timeline_position_y,
                            RMul(<<1, 10>>, Sign(self)))
         IN  TicksFrom(self,
                 [st EXCEPT
                    !.commands = @ \o
                       <<Rectangle("tick", None, x_pos,
                                   self.base_timeline_position_y,
                                   self.timeline_tick_width,
                                   self.timeline_tick_height, Grey(4)),
                         TextGeometry("tick_label", None, <<tick_timestamp>>,
                                      text_x, text_y, <<1, 10>>, <<1, 5>>,
                                      <<4, 25>>, Grey(8))>>,
                    !.used_text_areas = Append(@,
                       <<text_x, RAdd(text_x, <<1, 10>>),
                         text_y, RAdd(text_y, <<2, 25>>)>>)],
                 i + 1)

draw_ticks(self, st) == TicksFrom(self, st, 0)

\* ----------------------------------------------------------- section renderer
\* format_duration_us: the largest unit with duration >= factor, then 3, 2 or
\* 0 decimals; the result is <<digits, decimals, unit>> for the text
\* f"{value:.<decimals>f}{unit}", digits = value * 10^decimals rounded.
\* The factors are kept in milliseconds (an hour in microseconds exceeds the
\* checker's integers); the comparisons and quotients are the same.
DurationUnits ==
    <<<<"us", <<1, 1000>>>>, <<"ms", <<1, 1>>>>, <<"s", <<1000, 1>>>>,
      <<"min", <<60000, 1>>>>, <<"h", <<3600000, 1>>>>>>

FormatValue(value, unit) ==
    IF RLt(value, RInt(10)) THEN <<RRound(RMul(value, RInt(1000))), 3, unit>>
    ELSE IF RLt(value, RInt(100)) THEN <<RRound(RMul(value, RInt(100))), 2, unit>>
    ELSE <<RRound(value), 0, unit>>

RECURSIVE FormatFrom(_, _)
FormatFrom(duration_us, i) ==
    IF i = 0 THEN <<duration_us, 0, "us">>
    ELSE IF RLe(DurationUnits[i][2], Rat(duration_us, 1000))
         THEN FormatValue(RDiv(Rat(duration_us, 1000), DurationUnits[i][2]),
                          DurationUnits[i][1])
         ELSE FormatFrom(duration_us, i - 1)

format_duration_us(duration_us) == FormatFrom(duration_us, Len(DurationUnits))

\* the height draw_section_rect gives a section
SectionHeight(self, section, depth, width, root_section_width, height_is_depth_based) ==
    IF section.name = "root" /\ self.use_custom_root_section_height
    THEN self.custom_root_section_height
    ELSE IF height_is_depth_based
         THEN get_section_rect_height_depth_based(root_section_width, depth)
         ELSE get_section_rect_height_aspect_ratio_based(width)

RectCenterY(self, bottom_y_section, height) ==
    RAdd(bottom_y_section, RMul(RDiv(height, RInt(2)), Sign(self)))

\* draw_section_rect: the rectangle and the label of one section; the
\* returned (width, height, rect_center_y) are SectionGeometry
SectionGeometry(self, section, depth, bottom_y_section, root_section_width, height_is_depth_based) ==
    LET x_start == time_to_x(self, section.start_time)
        x_end   == time_to_x(self, section.end_time)
        width   == RSub(x_end, x_start)
        height  == SectionHeight(self, section, depth, width,
                                 root_section_width, height_is_depth_based)
    IN  [width |-> width, height |-> height,
         rect_center_y |-> RectCenterY(self, bottom_y_section, height),
         rect_center_x |-> RDiv(RAdd(x_start, x_end), RInt(2))]

draw_section_rect(self, tree, s, depth, section_index, bottom_y_section, root_section_width, height_is_depth_based, st) ==
    LET section == tree[s]
        g == SectionGeometry(self, section, depth, bottom_y_section,
                             root_section_width, height_is_depth_based)
        color == generate_color(depth, section_index)
        duration == duration_microseconds(section)
        duration_text == IF duration # None THEN format_duration_us(duration)
                         ELSE <<>>
        label_text == <<section.name>> \o duration_text
    IN  [st EXCEPT !.commands = @ \o
            <<Rectangle("section", s, g.rect_center_x, g.rect_center_y,
                        g.width, g.height, color),
              TextGeometry("section_label", s, label_text, g.rect_center_x,
                           g.rect_center_y, <<1, 100>>, g.width, g.height,
                           Grey(9))>>]

\* ------------------------------------------------------ event-sequence grouper
anchor(c) == c.start_time

\* sorted(section.children, key=anchor): a stable insertion sort
RECURSIVE InsertSorted(_, _, _)
InsertSorted(tree, sorted, c) ==
    IF sorted = <<>> THEN <<c>>
    ELSE IF anchor(tree[c]) < anchor(tree[sorted[Len(sorted)]])
         THEN Append(InsertSorted(tree, SubSeq(sorted, 1, Len(sorted) - 1), c),
                     sorted[Len(sorted)])
         ELSE Append(sorted, c)

RECURSIVE SortFrom(_, _, _, _)
SortFrom(tree, cs, i, sorted) ==
    IF i > Len(cs) THEN sorted
    ELSE SortFrom(tree, cs, i + 1, InsertSorted(tree, sorted, cs[i]))

children_sorted(tree, cs) == SortFrom(tree, cs, 1, <<>>)

\* a grouper that does not close the run at a section
GroupStepNoSplit(tree, acc, child) ==
    IF IsMessage(tree[child])
    THEN [acc EXCEPT !.current_seq = Append(@, child)]
    ELSE acc

\* what the loop does with one child
GroupStep(tree, acc, child) ==
    IF IsMessage(tree[child])
    THEN [acc EXCEPT !.current_seq = Append(@, child)]
    ELSE IF acc.current_seq # <<>>
         THEN [event_sequences |-> Append(acc.event_sequences, acc.current_seq),
               current_seq |-> <<>>]
         ELSE acc

RECURSIVE GroupFrom(_, _, _, _)
GroupFrom(tree, cs, i, acc) ==
    IF i > Len(cs)
    THEN IF acc.current_seq # <<>>
         THEN Append(acc.event_sequences, acc.current_seq)
         ELSE acc.event_sequences
    ELSE GroupFrom(tree, cs, i + 1, GroupStep(tree, acc, cs[i]))

\* group_event_sequences over a children list
GroupChildren(tree, cs) ==
    GroupFrom(tree, children_sorted(tree, cs), 1,
              [event_sequences |-> <<>>, current_seq |-> <<>>])

group_event_sequences(tree, s) == GroupChildren(tree, children(tree, s))

\* --------------------------------------------------------- annotation renderer
RECURSIVE SeqMax(_, _, _)
SeqMax(xs, i, m) ==
    IF i > Len(xs) THEN m
    ELSE SeqMax(xs, i + 1, IF xs[i] > m THEN xs[i] ELSE m)

RECURSIVE SeqMin(_, _, _)
SeqMin(xs, i, m) ==
    IF i > Len(xs) THEN m
    ELSE SeqMin(xs, i + 1, IF xs[i] < m THEN xs[i] ELSE m)

\* max(values, default=...) and min(values, default=...)
MaxOr(xs, default) == IF xs = <<>> THEN default ELSE SeqMax(xs, 2, xs[1])
MinOr(xs, default) == IF xs = <<>> THEN default ELSE SeqMin(xs, 2, xs[1])

\* "s.end_time <= first_event.timestamp" is evaluated for every child that is
\* a LogSection; with end_time None the comparison raises TypeError
BoundsRaise(tree, parent) ==
    \E i \in 1..Len(children(tree, parent)) :
        LET c == tree[children(tree, parent)[i]]
        IN  IsSection(c) /\ c.end_time = None

RECURSIVE EndsBefore(_, _, _, _)
EndsBefore(tree, cs, i, t) ==
    IF i > Len(cs) THEN <<>>
    ELSE IF IsSection(tree[cs[i]]) /\ tree[cs[i]].end_time <= t
         THEN <<tree[cs[i]].end_time>> \o EndsBefore(tree, cs, i + 1, t)
         ELSE EndsBefore(tree, cs, i + 1, t)

RECURSIVE StartsAfter(_, _, _, _)
StartsAfter(tree, cs, i, t) ==
    IF i > Len(cs) THEN <<>>
    ELSE IF IsSection(tree[cs[i]]) /\ tree[cs[i]].start_time >= t
         THEN <<tree[cs[i]].start_time>> \o StartsAfter(tree, cs, i + 1, t)
         ELSE StartsAfter(tree, cs, i + 1, t)

left_bound_time(tree, parent, first_event) ==
    MaxOr(EndsBefore(tree, children(tree, parent), 1,
                     tree[first_event].start_time),
          tree[parent].start_time)

right_bound_time(tree, parent, last_event) ==
    MinOr(StartsAfter(tree, children(tree, parent), 1,
                      tree[last_event].start_time),
          tree[parent].end_time)

\* we're doing margin like THINGY|MARGIN, THINGY|MARGIN
Margin(available_width) == RMul(<<1, 100>>, available_width)

\* a box width that takes a margin off for every box, the last included
AnnotationRectWidthMarginPerBox(available_width, num_events_in_sequence) ==
    RDiv(RSub(available_width,
              RMul(Margin(available_width), RInt(num_events_in_sequence))),
         RInt(num_events_in_sequence))

AnnotationRectWidth(available_width, num_events_in_sequence) ==
    RDiv(RSub(available_width,
              RMul(Margin(available_width), RInt(num_events_in_sequence - 1))),
         RInt(num_events_in_sequence))

\* start_x of the i-th box, i counted from 0
StartX(available_area_x_start, annotation_rect_width, margin, i) ==
    RAdd(available_area_x_start,
         RMul(RInt(i), RAdd(annotation_rect_width, margin)))

\* whitespace of str.strip(), and the strip of a text kept as its characters
Whitespace == {" ", "\t", "\n"}

RECURSIVE LStrip(_)
LStrip(t) == IF t # <<>> /\ t[1] \in Whitespace THEN LStrip(Tail(t)) ELSE t

RECURSIVE RStrip(_)
RStrip(t) ==
    IF t # <<>> /\ t[Len(t)] \in Whitespace
    THEN RStrip(SubSeq(t, 1, Len(t) - 1)) ELSE t

strip(t) == RStrip(LStrip(t))

\* the layout shared by the boxes of one run
AnnotationLayout(self, tree, event_sequence, parent, depth, parent_section_rect_center_y, parent_section_rect_width, parent_section_rect_height, root_section_width, height_is_depth_based) ==
    LET first_event == event_sequence[1]
        last_event  == event_sequence[Len(event_sequence)]
        x_start == time_to_x(self, left_bound_time(tree, parent, first_event))
        x_end   == time_to_x(self, right_bound_time(tree, parent, last_event))
        available_width == RSub(x_end, x_start)
        n == Len(event_sequence)
        rect_width == AnnotationRectWidth(available_width, n)
        build_side_y ==
            RAdd(parent_section_rect_center_y,
                 RMul(RDiv(parent_section_rect_height, RInt(2)), Sign(self)))
    IN  [available_area_x_start |-> x_start,
         margin |-> Margin(available_width),
         annotation_rect_width |-> rect_width,
         parent_section_build_side_y |-> build_side_y,
         annotation_rect_center_y |->
             IF height_is_depth_based
             THEN RAdd(build_side_y,
                    RMul(RMul(get_section_rect_height_depth_based(
                                  root_section_width, depth), <<3, 2>>),
                         Sign(self)))
             ELSE RAdd(build_side_y,
                    RMul(RMul(get_section_rect_height_aspect_ratio_based(
                                  parent_section_rect_width), <<3, 2>>),
                         Sign(self))),
         annotation_rect_height |->
             IF height_is_depth_based
             THEN RMul(RMul(<<2, 25>>, get_depth_scale(depth)),
                       RDiv(root_section_width, RInt(2)))
             ELSE RDiv(rect_width, RInt(4)),
         event_y |->
             IF height_is_depth_based
             THEN RAdd(build_side_y,
                    RMul(get_section_rect_height_depth_based(
                             root_section_width, depth), Sign(self)))
             ELSE RAdd(build_side_y,
                    RMul(RDiv(parent_section_rect_height, RInt(2)), Sign(self))),
         event_width |->
             IF height_is_depth_based
             THEN get_event_width_depth_based(root_section_width, depth + 1)
             ELSE get_event_width_aspect_ratio_based(parent_section_rect_width)]

\* the three commands of the i-th event of the run (i counted from 0)
AnnotationCommands(self, tree, event, i, lay) ==
    LET start_x == StartX(lay.available_area_x_start, lay.annotation_rect_width,
                          lay.margin, i)
        center_x == RAdd(start_x, RDiv(lay.annotation_rect_width, RInt(2)))
    IN  <<Rectangle("annotation", event, center_x, lay.annotation_rect_center_y,
                    lay.annotation_rect_width, lay.annotation_rect_height,
                    <<<<2, 5>>, <<3, 5>>, <<4, 5>>>>),
          TextGeometry("annotation_label", event, strip(tree[event].name),
                       center_x, lay.annotation_rect_center_y, <<1, 100>>,
                       lay.annotation_rect_width, lay.annotation_rect_height,
                       <<<<1, 1>>, <<1, 1>>, <<4, 5>>>>),
          RectangleBetween("connector", event, center_x,
                           lay.annotation_rect_center_y,
                           time_to_x(self, tree[event].start_time), lay.event_y,
                           lay.event_width, Grey(6))>>

RECURSIVE AnnotationsFrom(_, _, _, _, _)
AnnotationsFrom(self, tree, event_sequence, i, lay) ==
    IF i > Len(event_sequence) THEN <<>>
    ELSE AnnotationCommands(self, tree, event_sequence[i], i - 1, lay)
         \o AnnotationsFrom(self, tree, event_sequence, i + 1, lay)

\* ctx: the section being processed, its depth, its rectangle, the root
\* width and the sizing mode
draw_event_sequence_annotations(self, tree, event_sequence, ctx, st) ==
    IF BoundsRaise(tree, ctx.section) THEN [st EXCEPT !.raised = TRUE]
    ELSE LET lay == AnnotationLayout(self, tree, event_sequence, ctx.section,
                        ctx.depth, ctx.rect_center_y, ctx.width, ctx.height,
                        ctx.root_section_width, ctx.height_is_depth_based)
         IN  [st EXCEPT !.commands =
                 @ \o AnnotationsFrom(self, tree, event_sequence, 1, lay)]

RECURSIVE AnnotateRuns(_, _, _, _, _, _)
AnnotateRuns(self, tree, seqs, i, ctx, st) ==
    IF i > Len(seqs) \/ st.raised THEN st
    ELSE AnnotateRuns(self, tree, seqs, i + 1, ctx,
             draw_event_sequence_annotations(self, tree, seqs[i], ctx, st))

\* ------------------------------------------------------------------ tree walker
\* the standalone marker of a point-event child
EventMarker(self, tree, child, ctx) ==
    LET event_height ==
            IF ctx.height_is_depth_based
            THEN get_section_rect_height_depth_based(ctx.root_section_width,
                                                     ctx.depth + 1)
            ELSE RDiv(ctx.height, RInt(2))
        event_width ==
            IF ctx.height_is_depth_based
            THEN get_event_width_depth_based(ctx.root_section_width,
                                             ctx.depth + 1)
            ELSE get_event_width_aspect_ratio_based(ctx.width)
        build_side_y_of_current_section ==
            RAdd(ctx.bottom_y, RMul(ctx.height, Sign(self)))
        event_center_y ==
            RAdd(build_side_y_of_current_section,
                 RMul(RDiv(event_height, RInt(2)), Sign(self)))
    IN  Rectangle("marker", child, time_to_x(self, tree[child].start_time),
                  event_center_y, event_width, event_height,
                  <<<<1, 1>>, <<4, 5>>, <<2, 5>>>>)

\* a child stacked on its parent's centre line instead of its far edge
NextBaseYFromCentre(self, bottom_y_current_section, section_rect_height) ==
    RAdd(bottom_y_current_section,
         RMul(RDiv(section_rect_height, RInt(2)), Sign(self)))

\* directly stack, no spacing
NextBaseY(self, bottom_y_current_section, section_rect_height) ==
    RAdd(bottom_y_current_section, RMul(section_rect_height, Sign(self)))

\* a sibling counter that stands still
NextIndexStuck(child_section_index) == child_section_index

\* child_section_index += 1
NextIndex(child_section_index) == child_section_index + 1

\* "if section.end_time is None: return"
IsOpen(section) == section.end_time = None

RECURSIVE process_section(_, _, _, _, _, _, _, _, _)
RECURSIVE IterateChildren(_, _, _, _, _, _, _)

\* the loop "for child in section.children" from its i-th element
IterateChildren(self, tree, cs, i, child_section_index, ctx, st) ==
    IF i > Len(cs) \/ st.raised THEN st
    ELSE IF IsSection(tree[cs[i]])
         THEN IterateChildren(self, tree, cs, i + 1,
                  NextIndex(child_section_index), ctx,
                  process_section(self, tree, cs[i], ctx.depth + 1,
                      NextBaseY(self, ctx.bottom_y, ctx.height),
                      child_section_index, ctx.root_section_width,
                      ctx.height_is_depth_based, st))
         ELSE IterateChildren(self, tree, cs, i + 1, child_section_index, ctx,
                  [st EXCEPT !.commands =
                      Append(@, EventMarker(self, tree, cs[i], ctx))])

process_section(self, tree, s, depth, bottom_y_current_section, section_index_for_labelling, root_section_width, height_is_depth_based, st) ==
    IF IsOpen(tree[s]) THEN st
    ELSE LET iterating_on_root == root_section_width = <<0 - 1, 1>>
             rsw == IF iterating_on_root
                    THEN RSub(time_to_x(self, tree[s].end_time),
                              time_to_x(self, tree[s].start_time))
                    ELSE root_section_width
             g == SectionGeometry(self, tree[s], depth,
                      bottom_y_current_section, rsw, height_is_depth_based)
             ctx == [section |-> s, depth |-> depth,
                     bottom_y |-> bottom_y_current_section,
                     width |-> g.width, height |-> g.height,
                     rect_center_y |-> g.rect_center_y,
                     root_section_width |-> rsw,
                     height_is_depth_based |-> height_is_depth_based]
             drawn == draw_section_rect(self, tree, s, depth,
                          section_index_for_labelling,
                          bottom_y_current_section, rsw,
                          height_is_depth_based, st)
             annotated == AnnotateRuns(self, tree,
                              group_event_sequences(tree, s), 1, ctx, drawn)
         IN  IterateChildren(self, tree, children(tree, s), 1, 0, ctx,
                             annotated)

\* ------------------------------------------------------------ public interface
\* a list that is not cleared
Kept(xs) == xs

\* self.commands.clear(); self.used_text_areas.clear()
Cleared(xs) == <<>>

\* the base the root section is built from
EntryBaseY(self) ==
    RAdd(self.base_timeline_position_y,
         RMul(RAdd(RDiv(self.timeline_tick_height, RInt(2)), <<1, 10>>),
              Sign(self)))

\* the base line drawn after the ticks
AxisBaseLast(self, st) ==
    IF self.draw_timeline THEN draw_base_timeline(self, draw_ticks(self, st))
    ELSE st

Axis(self, st) ==
    IF self.draw_timeline THEN draw_ticks(self, draw_base_timeline(self, st))
    ELSE st

\* generate() on a visualizer whose lists hold cmds and areas: the lists
\* afterwards and whether the call raised; the sizing mode of the walk is the
\* default of process_section, aspect-ratio based
generate(self, tree, cmds, areas) ==
    process_section(self, tree, 0, 0, EntryBaseY(self), 0, <<0 - 1, 1>>, FALSE,
        Axis(self, [commands |-> Cleared(cmds),
                    used_text_areas |-> Cleared(areas),
                    raised |-> FALSE]))

\* ------------------------------------------------------------------- inputs
\* the text of every LogMessage, and the names sections carry
MessageText == <<" ", "m", "s", "g", " ">>
SectionNames == {"job"}

RootSection ==
    [parent |-> None, kind |-> "LogSection", name |-> "root",
     start_time |-> 0, end_time |-> MaxTime]

\* the children a section p of the tree may get: point-events and sections
\* inside p's span (inside the root's when p is open), sections open or closed
ChildOptions(tree, names) ==
    UNION {
        LET lo == tree[p].start_time
            hi == IF tree[p].end_time = None THEN MaxTime ELSE tree[p].end_time
        IN  {[parent |-> p, kind |-> "LogMessage", name |-> MessageText,
              start_time |-> t, end_time |-> None] : t \in lo..hi}
            \cup
            UNION {{[parent |-> p, kind |-> "LogSection", name |-> nm,
                     start_time |-> a, end_time |-> b] :
                        b \in (a..hi) \cup {None}, nm \in names} : a \in lo..hi}
        : p \in {q \in DOMAIN tree : IsSection(tree[q])}}

AddNode(tree, node) ==
    LET n == Cardinality(DOMAIN tree)
    IN  [i \in 0..n |-> IF i < n THEN tree[i] ELSE node]

\* the trees with exactly k nodes below the root
RECURSIVE TreesOf(_, _)
TreesOf(k, names) ==
    IF k = 0 THEN {[i \in {0} |-> RootSection]}
    ELSE UNION {{AddNode(t, c) : c \in ChildOptions(t, names)} :
                    t \in TreesOf(k - 1, names)}

Trees(n, names) == UNION {TreesOf(k, names) : k \in 0..n}

\* the children a flat section may get: only kind and anchor matter to the
\* grouper
FlatOptions ==
    {[parent |-> 0, kind |-> "LogMessage", name |-> MessageText,
      start_time |-> t, end_time |-> None] : t \in 0..MaxTime}
    \cup {[parent |-> 0, kind |-> "LogSection", name |-> "job",
           start_time |-> t, end_time |-> e] :
              t \in 0..MaxTime, e \in {None, MaxTime}}

RECURSIVE FlatTreesOf(_)
FlatTreesOf(k) ==
    IF k = 0 THEN {[i \in {0} |-> RootSection]}
    ELSE UNION {{AddNode(t, c) : c \in FlatOptions} : t \in FlatTreesOf(k - 1)}

FlatTrees == UNION {FlatTreesOf(k) : k \in 0..MaxChildren}

\* keyword arguments of a direct constructor call
CtorCalls ==
    {[build_direction |-> b, draw_timeline |-> d,
      use_custom_root_section_height |-> u] :
        b \in {"up", "down"}, d \in BOOLEAN, u \in BOOLEAN}

\* the values a configuration file may give each key; "self",
\* "root_section" and "comment" are keys outside the nine parameters
ConfigValues ==
    [build_direction |-> {"up", "down"},
     ndc_units_per_second |-> {<<1, 1>>},
     use_custom_root_section_height |-> {FALSE},
     custom_root_section_height |-> {<<1, 50>>},
     base_timeline_position_y |-> {<<1, 1>>},
     draw_timeline |-> {FALSE},
     timeline_tick_width |-> {<<1, 50>>},
     timeline_tick_height |-> {<<1, 5>>},
     custom_start_time |-> {<<0, 0, 1, 0>>},
     self |-> {"x"},
     root_section |-> {"x"},
     comment |-> {"x"}]

ConfigKeys == DOMAIN ConfigValues

\* the mappings over a set K of keys
RECURSIVE ConfigsOver(_)
ConfigsOver(K) ==
    IF K = {} THEN {[k \in {} |-> "x"]}
    ELSE LET key == CHOOSE k \in K : TRUE
         IN  {[k \in DOMAIN f \cup {key} |-> IF k = key THEN v ELSE f[k]] :
                 f \in ConfigsOver(K \ {key}), v \in ConfigValues[key]}

ConfigFiles ==
    UNION {ConfigsOver(K) :
               K \in {J \in SUBSET ConfigKeys : Cardinality(J) <= MaxConfigKeys}}

\* --------------------------------------------------------------------- state
VARIABLES
    root_section,     \* the tree the parser returned
    pc,               \* "parsed", "ready" (constructed), "failed" (the
                      \* constructor call raised), "grouped"
    config,           \* the mapping read from the configuration file
    kwargs,           \* the keyword arguments forwarded to the constructor
    visualizer,       \* the TimelineVisualizer's configuration fields
    commands,         \* self.commands
    used_text_areas,  \* self.used_text_areas
    raised,           \* whether the last generate() raised
    passes,           \* generate() passes started so far
    file,             \* what save() wrote
    event_sequences,  \* the result of group_event_sequences
    height_is_depth_based  \* the sizing mode of the last walk

vars == <<root_section, pc, config, kwargs, visualizer, commands,
          used_text_areas, raised, passes, file, event_sequences,
          height_is_depth_based>>

NoFile == [written |-> FALSE, lines |-> <<>>]
NoConfig == [k \in {} |-> "x"]

InitWith(trees) ==
    /\ root_section \in trees
    /\ pc = "parsed"
    /\ config = NoConfig
    /\ kwargs = NoConfig
    /\ visualizer = None
    /\ commands = <<>>
    /\ used_text_areas = <<>>
    /\ raised = FALSE
    /\ passes = 0
    /\ file = NoFile
    /\ event_sequences = <<>>
    /\ height_is_depth_based = FALSE

\* TimelineVisualizer(root, **call)
Construct ==
    /\ pc = "parsed"
    /\ \E call \in CtorCalls :
          /\ kwargs' = call
          /\ visualizer' = NewVisualizer(root_section[0], call)
    /\ pc' = "ready"
    /\ UNCHANGED <<root_section, config, commands, used_text_areas, raised,
                   passes, file, event_sequences, height_is_depth_based>>

\* TimelineVisualizer.from_config(root, config_path)
FromConfig ==
    /\ pc = "parsed"
    /\ \E cfg \in ConfigFiles :
          /\ config' = cfg
          /\ kwargs' = valid_keys(cfg)
          /\ IF CallRaises(valid_keys(cfg))
             THEN pc' = "failed" /\ UNCHANGED visualizer
             ELSE /\ pc' = "ready"
                  /\ visualizer' = NewVisualizer(root_section[0], valid_keys(cfg))
    /\ UNCHANGED <<root_section, commands, used_text_areas, raised, passes,
                   file, event_sequences, height_is_depth_based>>

\* visualizer.generate()
Generate ==
    /\ pc = "ready"
    /\ passes < MaxPasses
    /\ \E r \in {generate(visualizer, root_section, commands, used_text_areas)} :
           /\ commands' = r.commands
           /\ used_text_areas' = r.used_text_areas
           /\ raised' = r.raised
    /\ passes' = passes + 1
    /\ UNCHANGED <<root_section, pc, config, kwargs, visualizer, file,
                   event_sequences, height_is_depth_based>>

\* visualizer.save(filename): generate(), then one line per command; a
\* generate() that raises leaves the file untouched
Save ==
    /\ pc = "ready"
    /\ passes < MaxPasses
    /\ \E r \in {generate(visualizer, root_section, commands, used_text_areas)} :
           /\ commands' = r.commands
           /\ used_text_areas' = r.used_text_areas
           /\ raised' = r.raised
           /\ file' = IF r.raised THEN file
                      ELSE [written |-> TRUE, lines |-> r.commands]
    /\ passes' = passes + 1
    /\ UNCHANGED <<root_section, pc, config, kwargs, visualizer,
                   event_sequences, height_is_depth_based>>

\* visualizer.process_section(root, 0, base, 0, -1, mode) on a new visualizer
ProcessSection ==
    /\ pc = "ready"
    /\ passes = 0
    /\ \E mode \in BOOLEAN :
          /\ height_is_depth_based' = mode
          /\ \E r \in {process_section(visualizer, root_section, 0, 0,
                            EntryBaseY(visualizer), 0, <<0 - 1, 1>>, mode,
                            [commands |-> commands,
                             used_text_areas |-> used_text_areas,
                             raised |-> FALSE])} :
                /\ commands' = r.commands
                /\ used_text_areas' = r.used_text_areas
                /\ raised' = r.raised
    /\ passes' = passes + 1
    /\ UNCHANGED <<root_section, pc, config, kwargs, visualizer, file,
                   event_sequences>>

\* group_event_sequences(root)
Group ==
    /\ pc = "parsed"
    /\ event_sequences' = group_event_sequences(root_section, 0)
    /\ pc' = "grouped"
    /\ UNCHANGED <<root_section, config, kwargs, visualizer, commands,
                   used_text_areas, raised, passes, file,
                   height_is_depth_based>>

\* the program: parse, from_config, then generate() and save() calls
Init == InitWith(Trees(MaxRunNodes, SectionNames))
Next == FromConfig \/ Generate \/ Save
Spec == Init /\ [][Next]_vars

\* the layout of one pass over each tree, every build direction, with and
\* without the axis and the root height override
GenerateOnce == passes = 0 /\ Generate
InitLayout == InitWith(Trees(MaxNodes, SectionNames))
NextLayout == Construct \/ GenerateOnce
SpecLayout == InitLayout /\ [][NextLayout]_vars

\* the walk entered directly in either sizing mode, on the lists of a new
\* visualizer
InitModes == InitWith(Trees(MaxRunNodes, SectionNames))
NextModes == Construct \/ ProcessSection
SpecModes == InitModes /\ [][NextModes]_vars

\* the grouper on the children of one section
InitGroup == InitWith(FlatTrees)
NextGroup == Group
SpecGroup == InitGroup /\ [][NextGroup]_vars

\* ----------------------------------------------------- vocabulary of the claims
Done == pc = "ready" /\ passes > 0

RECURSIVE Flatten(_)
Flatten(seqs) == IF seqs = <<>> THEN <<>> ELSE Head(seqs) \o Flatten(Tail(seqs))

Range(xs) == {xs[i] : i \in 1..Len(xs)}

ChildSet(tree, s) == {c \in DOMAIN tree : c # 0 /\ tree[c].parent = s}
EventsOf(tree, s) == {c \in ChildSet(tree, s) : IsMessage(tree[c])}
SectionsOf(tree, s) == {c \in ChildSet(tree, s) : IsSection(tree[c])}

\* a comes before b when the children are put in time order: by anchor, and
\* by place in the children list when the anchors are equal
Before(tree, a, b) ==
    \/ anchor(tree[a]) < anchor(tree[b])
    \/ anchor(tree[a]) = anchor(tree[b]) /\ a < b

SectionBetween(tree, s, a, b) ==
    \E x \in SectionsOf(tree, s) : Before(tree, a, x) /\ Before(tree, x, b)

\* runs are the maximal section-free stretches of the point-events of s
MaximalRuns(tree, s, runs) ==
    LET flat == Flatten(runs)
    IN  /\ \A k \in 1..Len(runs) : runs[k] # <<>>
        /\ Len(flat) = Cardinality(EventsOf(tree, s))
        /\ Range(flat) = EventsOf(tree, s)
        /\ \A i \in 1..Len(flat) - 1 : Before(tree, flat[i], flat[i + 1])
        /\ \A k \in 1..Len(runs) : \A i \in 1..Len(runs[k]) - 1 :
              ~SectionBetween(tree, s, runs[k][i], runs[k][i + 1])
        /\ \A k \in 1..Len(runs) - 1 :
              SectionBetween(tree, s, runs[k][Len(runs[k])], runs[k + 1][1])

\* ------------------------------------------------------------------------ C1
\* C1: group_event_sequences returns exactly the maximal contiguous stretches
\* of point-events, in time order, that no section interrupts: every
\* point-event child is in exactly one run, no run is empty, and two
\* consecutive runs are separated by a section.
C1_MaximalRuns == pc = "grouped" => MaximalRuns(root_section, 0, event_sequences)

\* children e1, e2, S, e3 in time order give the runs [e1, e2] and [e3]
C1_Witness ==
    /\ pc = "grouped"
    /\ DOMAIN root_section = 0..4
    /\ IsMessage(root_section[1]) /\ IsMessage(root_section[2])
    /\ IsSection(root_section[3]) /\ IsMessage(root_section[4])
    /\ \A i \in 1..3 : root_section[i].start_time <= root_section[i + 1].start_time
    /\ event_sequences = <<<<1, 2>>, <<4>>>>

\* ------------------------------------------------------------------------ C2
\* C2: generate() never raises on a tree whose root is terminated, whatever
\* open sections, terminated sections and point-events the tree holds.
C2_GenerateNeverRaises == passes > 0 => ~raised

\* ------------------------------------------------- the commands of one pass
\* the commands of cmds that one append statement emitted for one node
Select(cmds, part, node) ==
    LET Test(c) == c.part = part /\ c.node = node
    IN  SelectSeq(cmds, Test)

Count(part, node) == Len(Select(commands, part, node))

\* a section is rendered when it and all its ancestors are terminated
RECURSIVE Rendered(_, _)
Rendered(tree, s) ==
    /\ IsSection(tree[s])
    /\ tree[s].end_time # None
    /\ (s = 0 \/ Rendered(tree, tree[s].parent))

RECURSIVE Depth(_, _)
Depth(tree, s) == IF s = 0 THEN 0 ELSE 1 + Depth(tree, tree[s].parent)

RECURSIVE IsBelow(_, _, _)
IsBelow(tree, d, u) ==
    /\ d \in DOMAIN tree
    /\ d # 0
    /\ (tree[d].parent = u \/ IsBelow(tree, tree[d].parent, u))

RenderedSections(tree) == {s \in DOMAIN tree : Rendered(tree, s)}
RenderedEvents(tree) ==
    {e \in DOMAIN tree : IsMessage(tree[e]) /\ Rendered(tree, tree[e].parent)}
OpenSections(tree) ==
    {u \in DOMAIN tree : u # 0 /\ IsSection(tree[u]) /\ tree[u].end_time = None}

\* the tree with u taken out of its parent's children
Detached == 0 - 2
Without(tree, u) == [tree EXCEPT ![u].parent = Detached]

\* the place of section s among the sections of its parent's children
SectionIndex(tree, s) ==
    Cardinality({c \in SectionsOf(tree, tree[s].parent) : c < s})

NoColor(cmds) == [i \in 1..Len(cmds) |-> [cmds[i] EXCEPT !.color = <<>>]]

SectionCommands(cmds, s) ==
    Select(cmds, "section", s) \o Select(cmds, "section_label", s)

\* ------------------------------------------------------------------------ C3
\* C3 as stated: in a completed pass an open section and its descendants
\* contribute no command, and every sibling section gets the very commands
\* (position, size, colour, label) it gets when the open section is not among
\* the parent's children.
C3_SiblingsIdentical ==
    (Done /\ ~raised) =>
        \A u \in OpenSections(root_section) :
            /\ \A i \in 1..Len(commands) :
                  commands[i].node # u /\ ~IsBelow(root_section, commands[i].node, u)
            /\ LET other == generate(visualizer, Without(root_section, u),
                                     <<>>, <<>>).commands
               IN  \A s \in SectionsOf(root_section, root_section[u].parent) \ {u} :
                      SectionCommands(commands, s) = SectionCommands(other, s)

\* C3 as amended: in a completed pass an open section and its descendants
\* contribute no command, and every sibling section keeps the rectangle
\* position, the size and the label it has without the open section; a
\* sibling before it keeps its colour too, while a sibling after it is
\* coloured for a sibling index one higher, because the counter also counts
\* the open section.
C3_SiblingsKeepGeometry ==
    (Done /\ ~raised) =>
        \A u \in OpenSections(root_section) :
            /\ \A i \in 1..Len(commands) :
                  commands[i].node # u /\ ~IsBelow(root_section, commands[i].node, u)
            /\ LET without == Without(root_section, u)
                   other == generate(visualizer, without, <<>>, <<>>).commands
               IN  \A s \in SectionsOf(root_section, root_section[u].parent) \ {u} :
                      /\ NoColor(SectionCommands(commands, s))
                            = NoColor(SectionCommands(other, s))
                      /\ \A i \in 1..Len(SectionCommands(commands, s)) :
                            LET here == SectionCommands(commands, s)[i].color
                                there == SectionCommands(other, s)[i].color
                                k == SectionIndex(without, s)
                                d == Depth(root_section, s)
                            IN  IF i = 2 \/ s < u THEN here = there
                                ELSE /\ there = generate_color(d, k)
                                     /\ here = generate_color(d, k + 1)

\* an open section with a child of its own, skipped between two drawn things:
\* its rendered parent and a sibling section drawn after it
C3_Witness ==
    /\ Done /\ ~raised
    /\ \E u \in OpenSections(root_section) :
          /\ \E d \in DOMAIN root_section : IsBelow(root_section, d, u)
          /\ \E s \in SectionsOf(root_section, root_section[u].parent) :
                s > u /\ Count("section", s) = 1

\* ------------------------------------------------------------------------ C4
AnnotationOf(e) == Select(commands, "annotation", e)[1]

\* C4: the horizontal span into which a run's annotation boxes are packed
\* overlaps the span of no terminated child section of the same parent in
\* more than a boundary point, wherever the point-events lie.
C4_AnnotationsClearOfSections ==
    Done =>
        \A p \in RenderedSections(root_section) :
            \A k \in 1..Len(group_event_sequences(root_section, p)) :
                LET run == group_event_sequences(root_section, p)[k]
                IN  Count("annotation", run[1]) = 1 =>
                    LET first == AnnotationOf(run[1])
                        last == AnnotationOf(run[Len(run)])
                        left == RSub(first.x, RDiv(first.w, RInt(2)))
                        right == RAdd(last.x, RDiv(last.w, RInt(2)))
                    IN  \A c \in SectionsOf(root_section, p) :
                           root_section[c].end_time # None =>
                               ~RLt(RMax(left, time_to_x(visualizer,
                                              root_section[c].start_time)),
                                    RMin(right, time_to_x(visualizer,
                                              root_section[c].end_time)))

\* ------------------------------------------------------------------------ C5
\* C5: after a pass every rendered section has exactly one rectangle and one
\* label, every point-event directly under a rendered section has exactly one
\* annotation box, one annotation label, one connector and one marker, the
\* marker centred at time_to_x(timestamp); so the pass holds 23 axis commands
\* (when the axis is drawn) + 2 per rendered section + 4 per such point-event.
C5_EveryNodeDrawnOnce ==
    Done =>
        /\ \A s \in RenderedSections(root_section) :
              Count("section", s) = 1 /\ Count("section_label", s) = 1
        /\ \A e \in RenderedEvents(root_section) :
              /\ Count("annotation", e) = 1
              /\ Count("annotation_label", e) = 1
              /\ Count("connector", e) = 1
              /\ Count("marker", e) = 1
              /\ Select(commands, "marker", e)[1].x
                    = time_to_x(visualizer, root_section[e].start_time)
        /\ Len(commands) = (IF visualizer.draw_timeline THEN 23 ELSE 0)
                           + 2 * Cardinality(RenderedSections(root_section))
                           + 4 * Cardinality(RenderedEvents(root_section))

\* ------------------------------------------------------------------------ C6
Place(part, node) ==
    CHOOSE i \in 1..Len(commands) :
        commands[i].part = part /\ commands[i].node = node

\* C6: the n boxes of a run share the width (W - margin*(n-1)) / n with
\* margin = W / 100, W the available width, so n widths and n-1 margins
\* make W; the i-th event in time order has its left edge at
\* start + i*(width + margin): the first box starts at the left bound, each
\* next box a margin after the one before, the last ends at the right bound.
C6_Packing ==
    Done =>
        \A p \in RenderedSections(root_section) :
            \A k \in 1..Len(group_event_sequences(root_section, p)) :
                LET run == group_event_sequences(root_section, p)[k]
                    n == Len(run)
                    xl == time_to_x(visualizer,
                              left_bound_time(root_section, p, run[1]))
                    xr == time_to_x(visualizer,
                              right_bound_time(root_section, p, run[n]))
                    W == RSub(xr, xl)
                    margin == RDiv(W, RInt(100))
                    bw == AnnotationOf(run[1]).w
                    left(i) == RSub(AnnotationOf(run[i]).x, RDiv(bw, RInt(2)))
                IN  /\ ~raised => Count("annotation", run[1]) = 1
                    /\ Count("annotation", run[1]) = 1 =>
                        /\ \A i \in 1..n : Count("annotation", run[i]) = 1
                        /\ \A i \in 1..n : AnnotationOf(run[i]).w = bw
                        /\ bw = RDiv(RSub(W, RMul(margin, RInt(n - 1))), RInt(n))
                        /\ RAdd(RMul(RInt(n), bw), RMul(RInt(n - 1), margin)) = W
                        /\ \A i \in 1..n :
                              left(i) = RAdd(xl, RMul(RInt(i - 1), RAdd(bw, margin)))
                        /\ left(1) = xl
                        /\ RAdd(left(n), bw) = xr
                        /\ \A i \in 1..n - 1 :
                              /\ RSub(left(i + 1), RAdd(left(i), bw)) = margin
                              /\ root_section[run[i]].start_time
                                    <= root_section[run[i + 1]].start_time
                              /\ Place("annotation", run[i])
                                    < Place("annotation", run[i + 1])

\* a run of two or more events packed into a span of positive width
C6_Witness ==
    /\ Done
    /\ \E p \in RenderedSections(root_section) :
          \E k \in 1..Len(group_event_sequences(root_section, p)) :
              LET run == group_event_sequences(root_section, p)[k]
              IN  /\ Len(run) >= 2
                  /\ Count("annotation", run[2]) = 1
                  /\ RLt(Zero, AnnotationOf(run[1]).w)

\* ------------------------------------------------------------------------ C7
\* the pass of a visualizer fresh from its constructor
FreshPass == generate(visualizer, root_section, <<>>, <<>>)

\* C7: after any sequence of generate() and save() calls the command list is
\* the command sequence of one pass of a fresh visualizer, used_text_areas
\* holds the entries of that one pass (one per tick label), and the file
\* save() wrote holds that sequence.
C7_OnePassOnly ==
    Done =>
        /\ commands = FreshPass.commands
        /\ used_text_areas = FreshPass.used_text_areas
        /\ Len(used_text_areas) = (IF visualizer.draw_timeline THEN 11 ELSE 0)
        /\ file.written => file.lines = FreshPass.commands

\* a second pass, after a save, over a tree that has more than the root
C7_Witness ==
    /\ Done
    /\ passes = 2
    /\ file.written
    /\ \E i \in 1..Len(commands) : commands[i].node > 0

\* ------------------------------------------------------------------------ C8
AxisParts == {"base_timeline", "tick", "tick_label"}

\* C8: with the axis enabled a pass emits the base line first, then the 11
\* pairs (tick rectangle, tick label) for the fractions 0.0, 0.1, ..., 1.0 of
\* the total duration in increasing order, and nothing of the axis after
\* these 23 commands; with the axis disabled it emits no axis command and
\* the first command is the root section's rectangle.
C8_AxisFirst ==
    Done =>
        IF visualizer.draw_timeline
        THEN /\ Len(commands) >= 23
             /\ commands[1].part = "base_timeline"
             /\ commands[1].op = "generate_rectangle"
             /\ commands[1].y = visualizer.base_timeline_position_y
             /\ \A i \in 0..10 :
                   /\ commands[2 + 2 * i].part = "tick"
                   /\ commands[2 + 2 * i].op = "generate_rectangle"
                   /\ commands[2 + 2 * i].x = Rat(i - 5, 5)
                   /\ commands[3 + 2 * i].part = "tick_label"
                   /\ commands[3 + 2 * i].op = "get_text_geometry"
                   /\ commands[3 + 2 * i].text =
                         <<RAdd(visualizer.start_time,
                                RMul(Rat(i, 10),
                                     RSub(visualizer.end_time,
                                          visualizer.start_time)))>>
             /\ \A j \in 24..Len(commands) : commands[j].part \notin AxisParts
        ELSE /\ \A j \in 1..Len(commands) : commands[j].part \notin AxisParts
             /\ commands[1].part = "section"
             /\ commands[1].node = 0

\* a pass with the axis and, after it, more than the root section
C8_Witness ==
    /\ Done
    /\ visualizer.draw_timeline
    /\ Len(commands) > 25
    /\ commands[24].part = "section"

\* ------------------------------------------------------------------------ C9
Recognized(cfg) == [k \in DOMAIN cfg \cap CtorParams |-> cfg[k]]

\* C9: from_config drops every key of the file that is not one of the nine
\* parameters: construction succeeds, the constructor gets exactly the
\* recognized keys with their values, and the visualizer is the one those
\* alone construct.
C9_UnrecognizedKeysDropped ==
    pc \in {"ready", "failed"} =>
        /\ pc = "ready"
        /\ kwargs = Recognized(config)
        /\ visualizer = NewVisualizer(root_section[0], Recognized(config))

\* ----------------------------------------------------------------------- C10
RectOf(s) == Select(commands, "section", s)[1]

\* the heights of the rectangles drawn for the ancestors of s
RECURSIVE AncestorHeights(_, _)
AncestorHeights(tree, s) ==
    IF s = 0 THEN Zero
    ELSE RAdd(RectOf(tree[s].parent).h, AncestorHeights(tree, tree[s].parent))

\* C10: every section rectangle of a pass spans from its base to its base +
\* sign * height, where the root's base is the entry base and a child's base
\* is its parent's far edge (no gap); so the base is the entry base + sign *
\* the sum of the drawn heights of the ancestors, and a section named "root"
\* has the configured height when the override is enabled.
C10_Stacking ==
    Done =>
        \A s \in DOMAIN root_section :
            Count("section", s) = 1 =>
                LET sign == Sign(visualizer)
                    c == RectOf(s)
                    base == RSub(c.y, RMul(sign, RDiv(c.h, RInt(2))))
                    parent == root_section[s].parent
                IN  /\ s = 0 => base = EntryBaseY(visualizer)
                    /\ s # 0 =>
                          /\ Count("section", parent) = 1
                          /\ base = RAdd(RectOf(parent).y,
                                         RMul(sign, RDiv(RectOf(parent).h, RInt(2))))
                    /\ base = RAdd(EntryBaseY(visualizer),
                                   RMul(sign, AncestorHeights(root_section, s)))
                    /\ (root_section[s].name = "root"
                        /\ visualizer.use_custom_root_section_height)
                          => c.h = visualizer.custom_root_section_height

\* a section drawn two levels below the root, on ancestors of positive height
C10_Witness ==
    /\ Done
    /\ \E s \in DOMAIN root_section :
          /\ Depth(root_section, s) = 2
          /\ Count("section", s) = 1
          /\ RLt(Zero, RectOf(root_section[s].parent).h)

\* ----------------------------------------------------------------------- C11
\* the events whose annotation box, connector and marker the walk has drawn
Annotated == {e \in DOMAIN root_section : Count("annotation", e) = 1}
Connected ==
    {e \in DOMAIN root_section :
        /\ Count("annotation", e) = 1
        /\ Count("connector", e) = 1
        /\ Count("marker", e) = 1}

\* the build-side edge of the rectangle drawn for section p
BuildSideEdge(p) ==
    RAdd(RectOf(p).y, RMul(Sign(visualizer), RDiv(RectOf(p).h, RInt(2))))

\* 0.15 * depth_scale(depth) * (root_width / 2), root_width the width of the
\* root's rectangle
DepthBasedHeight(depth) ==
    RMul(RMul(<<3, 20>>, Rat(1, depth + 1)), RDiv(RectOf(0).w, RInt(2)))

\* C11: in either sizing mode, the vertical centre of every annotation box
\* is the build-side edge of the parent section's rectangle plus sign * 1.5 *
\* the depth-based section height at the parent's depth; the sizing mode does
\* not enter the offset.
C11_AnnotationRowOffset ==
    Done =>
        \A e \in Annotated :
            LET p == root_section[e].parent
            IN  AnnotationOf(e).y =
                    RAdd(BuildSideEdge(p),
                         RMul(Sign(visualizer),
                              RMul(<<3, 2>>,
                                   DepthBasedHeight(Depth(root_section, p)))))

\* ----------------------------------------------------------------------- C12
ConnectorOf(e) == Select(commands, "connector", e)[1]
MarkerOf(e) == Select(commands, "marker", e)[1]

\* y lies between a and b, whichever is the lower
Within(y, a, b) == RLe(RMin(a, b), y) /\ RLe(y, RMax(a, b))

\* C12: in either sizing mode, the connector of every point-event starts at
\* the centre of the event's annotation box and ends on the event's standalone
\* marker: at the marker's centre x, time_to_x(timestamp), at a y between the
\* parent's build-side edge and that edge + sign * the marker's height; and
\* the connector is as thick as the marker is wide.
C12_ConnectorMeetsMarker ==
    Done =>
        \A e \in Connected :
            LET k == ConnectorOf(e)
                a == AnnotationOf(e)
                m == MarkerOf(e)
                edge == BuildSideEdge(root_section[e].parent)
            IN  /\ k.x = a.x /\ k.y = a.y
                /\ k.x2 = time_to_x(visualizer, root_section[e].start_time)
                /\ k.x2 = m.x
                /\ edge = RSub(m.y, RMul(Sign(visualizer), RDiv(m.h, RInt(2))))
                /\ Within(k.y2, edge, RAdd(edge, RMul(Sign(visualizer), m.h)))
                /\ k.w = m.w

====
